---------------------------- MODULE Spec2Model ----------------------------
(***************************************************************************)
(* A model of the feeless wire layer:                                      *)
(*   - PcapDump::dump (src/src/pcap.rs): the per-packet reassembly loop,   *)
(*     its leftover store stream_cont, its frontier set and its error      *)
(*     policy;                                                             *)
(*   - FullBlock (src/src/blocks/mod.rs): new, set_work, set_signature,    *)
(*     sign, verify_signature, hash, balance, previous and its JSON form;  *)
(*   - Keepalive (src/node/src/messages/keepalive.rs): len, deserialize,   *)
(*     serialize;                                                          *)
(*   - network_channel and the node-id handshake (src/src/node/channel.rs) *)
(*     with the cookie store (src/src/node/state/sled_disk.rs).            *)
(* Header, Bytes, the message codecs other than Keepalive, the block       *)
(* variants with their hash functions and field codecs, the key types and  *)
(* Controller are not part of the source tree at hand; they are modelled   *)
(* from the specification's description.                                   *)
(***************************************************************************)
EXTENDS Integers, Sequences, FiniteSets, Bags, TLC

VARIABLES
    \* PcapDump fields (pcap.rs:46-61)
    stream_cont, frontiers, abort_on_error, start_at, end_at, filter_addr,
    subject, found_subject,
    \* locals of PcapDump::dump that live across packets (pcap.rs:93-98)
    has_started, packet_idx,
    \* how dump ended: "running", "ok", "err", "panic"
    result,
    \* what dump printed: the decoded (Header, Message) pairs, in order
    out,
    \* the capture file: per stream, the TCP payload bytes not yet read
    wire,
    \* history of the capture read so far, per stream: bytes handed to the
    \* reassembly, number of such packets, and which of "error" (a decode
    \* failure) and "frontier" (the frontier branch) a packet of it met
    sent, npk, bad,
    \* what the last packet read did
    last,
    \* the FullBlock under test, the signature the last successful sign
    \* produced (with the block and the key it signed), and the last call on
    \* a FullBlock with its result
    fb, made, ret, lastop,
    \* the Keepalive codec under test: the payload bytes given, the value
    \* decoded from them, and the last call with its result
    kdata, kmsg, kret, kop,
    \* network_channel: the reader task (position, chunk in hand, reads done,
    \* end of stream seen), the inbound channel, the controller (position,
    \* buffer in hand, chunks taken), the outbound channel, the writer loop
    \* (position, buffer in hand), the buffers written to the socket and
    \* the buffers the controller has put into the outbound channel
    rpc, rchunk, nread, eof_seen, inq, cpc, cbuf, decoded, outq, wpc, wbuf,
    written, queued,
    \* the node-id handshake of one connection: the cookie store, the peer's
    \* socket address, the messages sent to the peer, the result of the last
    \* call, what that call did, whether a query has been sent, and the
    \* number of responses checked against a stored cookie since the last
    \* query; per socket address, the last cookies set_cookie was given
    cookies, peer_addr, hsent, hret, hlast, queried, nchecks, cset

dumpvars == <<stream_cont, frontiers, abort_on_error, start_at, end_at,
              filter_addr, subject, found_subject, has_started, packet_idx,
              result, out, wire, sent, npk, bad, last>>
blockvars == <<fb, made, ret, lastop>>
keepalivevars == <<kdata, kmsg, kret, kop>>
chanvars == <<rpc, rchunk, nread, eof_seen, inq, cpc, cbuf, decoded, outq,
              wpc, wbuf, written, queued>>
handvars == <<cookies, peer_addr, hsent, hret, hlast, queried, nchecks, cset>>
vars == <<dumpvars, blockvars, keepalivevars, chanvars, handvars>>

(* What each component leaves alone. *)
notdump == <<blockvars, keepalivevars, chanvars, handvars>>
notblock == <<dumpvars, keepalivevars, chanvars, handvars>>
notkeepalive == <<dumpvars, blockvars, chanvars, handvars>>
notchan == <<dumpvars, blockvars, keepalivevars, handvars>>
nothand == <<dumpvars, blockvars, keepalivevars, chanvars>>

-----------------------------------------------------------------------------
(* Option<T> *)
None == [some |-> FALSE]
Some(x) == [some |-> TRUE, val |-> x]

(* Bounds of the model *)
MaxPackets == 3

-----------------------------------------------------------------------------
(* Bytes: a cursor over a byte slice (crate::bytes::Bytes).  The cursor is *)
(* the number of bytes already consumed.                                   *)
remain(b, pos) == Len(b) - pos
eof(b, pos) == remain(b, pos) = 0
seek(pos, delta) == pos + delta
slice(b, pos, n) == SubSeq(b, pos + 1, pos + n)

-----------------------------------------------------------------------------
(* Header: network id, three version bytes, message type, two bytes of     *)
(* extensions.                                                             *)
HeaderLEN == 7

NetworkTest == 65
NetworkBeta == 66
NetworkLive == 67
Networks == {NetworkTest, NetworkBeta, NetworkLive}

VersionMax == 18
VersionUsing == 18
VersionMin == 17

MessageTypeOf(byte) ==
    CASE byte = 2 -> "Keepalive"
      [] byte = 3 -> "Publish"
      [] byte = 4 -> "ConfirmReq"
      [] byte = 5 -> "ConfirmAck"
      [] byte = 6 -> "BulkPull"
      [] byte = 7 -> "BulkPush"
      [] byte = 8 -> "FrontierReq"
      [] byte = 10 -> "Handshake"
      [] byte = 11 -> "BulkPullAccount"
      [] byte = 12 -> "TelemetryReq"
      [] byte = 13 -> "TelemetryAck"
      [] OTHER -> "Err"

(* Header::deserialize(None, bytes): the network id and the message type   *)
(* must be known values.                                                   *)
HeaderDeserialize(hb) ==
    IF hb[1] \notin Networks \/ MessageTypeOf(hb[5]) = "Err"
    THEN [ok |-> FALSE]
    ELSE [ok |-> TRUE, network |-> hb[1],
          version |-> <<hb[2], hb[3], hb[4]>>,
          message_type |-> MessageTypeOf(hb[5]),
          ext |-> <<hb[6], hb[7]>>]

(* Extensions: the query and response bits, the embedded block type and    *)
(* the item count.                                                         *)
is_query(ext) == ext[1] % 2 = 1
is_response(ext) == (ext[1] \div 2) % 2 = 1
ext_block_type(ext) == ext[2] % 16
ext_item_count(ext) == ext[2] \div 16

-----------------------------------------------------------------------------
(* BlockType::try_from(u8) *)
BlockTypeTryFrom(value) ==
    CASE value = 0 -> Some("Invalid")
      [] value = 1 -> Some("NotABlock")
      [] value = 2 -> Some("Send")
      [] value = 3 -> Some("Receive")
      [] value = 4 -> Some("Open")
      [] value = 5 -> Some("Change")
      [] value = 6 -> Some("State")
      [] OTHER -> None

-----------------------------------------------------------------------------
(* Wire::len per message type.  Apart from Keepalive's peer count and the  *)
(* handshake fields the byte lengths are scaled down: the reassembly loop  *)
(* uses them only in comparisons with bytes.remain().                      *)
Ok(x) == [ok |-> TRUE, val |-> x]
Err(e) == [ok |-> FALSE, err |-> e]

(* The outcome of a call: a value, an error value, or a panic. *)
Return(v) == [kind |-> "ok", val |-> v]
Failure(e) == [kind |-> "err", err |-> e]
Panic == [kind |-> "panic"]

PEERS == 8
PeerLEN == 2
CookieLEN == 32
PublicLEN == 32
SignatureLEN == 64
FrontierReqLEN == 1
TelemetryAckLEN == 1
HashPairLEN == 1
VoteHeadLEN == 1

BlockLEN(bt) ==
    CASE bt = "Send" -> 2
      [] bt = "Receive" -> 1
      [] bt = "Open" -> 3
      [] bt = "Change" -> 1
      [] bt = "State" -> 4

KeepaliveLen == PeerLEN * PEERS

PublishLen(ext) ==
    LET bt == BlockTypeTryFrom(ext_block_type(ext)) IN
    IF bt.some /\ bt.val \notin {"Invalid", "NotABlock"}
    THEN Ok(BlockLEN(bt.val))
    ELSE Err("block type")

HandshakeLen(ext) ==
    (IF is_query(ext) THEN CookieLEN ELSE 0)
    + (IF is_response(ext) THEN PublicLEN + SignatureLEN ELSE 0)

WireLen(mt, ext) ==
    CASE mt = "Keepalive" -> Ok(KeepaliveLen)
      [] mt = "TelemetryReq" -> Ok(0)
      [] mt = "TelemetryAck" -> Ok(TelemetryAckLEN)
      [] mt = "FrontierReq" -> Ok(FrontierReqLEN)
      [] mt = "Handshake" -> Ok(HandshakeLen(ext))
      [] mt = "Publish" -> PublishLen(ext)
      [] mt = "ConfirmReq" -> Ok(ext_item_count(ext) * HashPairLEN)
      [] mt = "ConfirmAck" -> Ok(VoteHeadLEN + ext_item_count(ext) * HashPairLEN)

(* Peer::deserialize on PeerLEN bytes: an address and a port. *)
PeerDeserialize(b) ==
    Ok([addr |-> SubSeq(b, 1, PeerLEN - 1), port |-> b[PeerLEN]])

(* Keepalive::deserialize (keepalive.rs:27-33): the loop body is run for   *)
(* n more peers; bytes.slice fails when fewer than PeerLEN bytes remain.   *)
RECURSIVE KeepalivePeers(_, _, _, _)
KeepalivePeers(data, pos, n, acc) ==
    IF n = 0 THEN Ok(acc)
    ELSE IF remain(data, pos) < PeerLEN THEN Err("slice")
    ELSE LET peer == PeerDeserialize(slice(data, pos, PeerLEN)) IN
         IF ~peer.ok THEN peer
         ELSE KeepalivePeers(data, seek(pos, PeerLEN), n - 1, Append(acc, peer.val))

KeepaliveDeserializeReversed(data) ==
    LET k == KeepalivePeers(data, 0, PEERS, <<>>) IN
    IF k.ok THEN Ok([i \in 1..PEERS |-> k.val[PEERS + 1 - i]]) ELSE k

(* Keepalive::deserialize (keepalive.rs:23-34) *)
KeepaliveDeserialize(data) == KeepalivePeers(data, 0, PEERS, <<>>)

(* Keepalive::serialize (keepalive.rs:19-21): unimplemented!() *)
KeepaliveSerialize(m) == Panic

(* T::deserialize(header, data) for the payload types of the loop. *)
WireDeserialize(mt, ext, data) ==
    IF mt = "Keepalive"
    THEN LET k == KeepaliveDeserialize(data) IN
         IF k.ok THEN Ok([type |-> mt, peers |-> k.val]) ELSE k
    ELSE Ok([type |-> mt, ext |-> ext, body |-> data])

-----------------------------------------------------------------------------
(* PcapDump::dump, the part of one packet after the filters.               *)

DEFAULT_PORT == "7075"

(* The message types the dispatch of the loop handles (pcap.rs:274-290). *)
Handled ==
    {"Handshake", "ConfirmReq", "ConfirmAck", "Keepalive", "TelemetryReq",
     "TelemetryAck", "Publish", "FrontierReq"}

stream_id_undirected(p) == {<<p.sip, p.sport>>, <<p.dip, p.dport>>}

(* stream_id: "src:port->dst:port" (pcap.rs:173-179) *)
stream_id(p) == <<p.sip, p.sport, p.dip, p.dport>>

(* connection_id: the four strings sorted and joined (pcap.rs:181-188).    *)
(* A sorted list of strings is the bag of its elements.                    *)
connection_id(p) ==
    SetToBag({p.sip}) (+) SetToBag({p.sport}) (+) SetToBag({p.dip})
        (+) SetToBag({p.dport})

PrependNothing(cont, sid, data) == data

(* The bytes the loop works on: the stream's leftover, if any, followed by *)
(* the packet's data (pcap.rs:197-215).                                    *)
Prepend(cont, sid, data) ==
    IF sid \in DOMAIN cont THEN cont[sid][2] \o data ELSE data

(* stream_cont.remove(&stream_id) (pcap.rs:208) *)
MapRemove(m, k) == [x \in DOMAIN m \ {k} |-> m[x]]

(* stream_cont.insert(stream_id, (packet_idx, remaining)) *)
MapInsert(m, k, v) == (k :> v) @@ m

payload_needs_more(h, b, pos) ==
    LET len == WireLen(h.message_type, h.ext) IN
    IF ~len.ok THEN [ok |-> FALSE]
    ELSE IF remain(b, pos) <= len.val THEN [ok |-> TRUE, some |-> FALSE]
    ELSE LET m == WireDeserialize(h.message_type, h.ext, slice(b, pos, len.val)) IN
         IF ~m.ok THEN [ok |-> FALSE]
         ELSE [ok |-> TRUE, some |-> TRUE, msg |-> m.val, pos |-> pos + len.val]

(* payload::<T>(header, bytes) (pcap.rs:355-373): Err, Ok(None) when fewer *)
(* than len bytes remain, or Ok(Some(message)) with the cursor advanced.   *)
payload(h, b, pos) ==
    LET len == WireLen(h.message_type, h.ext) IN
    IF ~len.ok THEN [ok |-> FALSE]
    ELSE IF remain(b, pos) < len.val THEN [ok |-> TRUE, some |-> FALSE]
    ELSE LET m == WireDeserialize(h.message_type, h.ext, slice(b, pos, len.val)) IN
         IF ~m.ok THEN [ok |-> FALSE]
         ELSE [ok |-> TRUE, some |-> TRUE, msg |-> m.val, pos |-> pos + len.val]

RewoundNoSeek(b, pos) == slice(b, pos, remain(b, pos))

(* The span stored as the leftover when the payload is incomplete: the     *)
(* cursor is moved back over the header (pcap.rs:308-309).                 *)
Rewound(b, pos) ==
    LET p == seek(pos, -HeaderLEN) IN slice(b, p, remain(b, p))

ShortRestWhole(b, pos) == b

(* The span stored when fewer than Header::LEN bytes remain (pcap.rs:229). *)
ShortRest(b, pos) == slice(b, pos, remain(b, pos))

(* while !bytes.eof() { ... } (pcap.rs:227-330).  The result says how the  *)
(* loop was left (end), the pairs printed, the leftover to store and       *)
(* whether a FrontierReq was decoded.                                      *)
RECURSIVE Loop(_, _, _, _)
Loop(b, pos, acc, fr) ==
    IF eof(b, pos)
    THEN [end |-> "eof", emitted |-> acc, rest |-> None, frontier |-> fr]
    ELSE IF remain(b, pos) < HeaderLEN
    THEN [end |-> "short_header", emitted |-> acc,
          rest |-> Some(ShortRest(b, pos)), frontier |-> fr]
    ELSE LET h == HeaderDeserialize(slice(b, pos, HeaderLEN))
             p1 == pos + HeaderLEN
         IN
         IF ~h.ok
         THEN [end |-> "header_error", emitted |-> acc, rest |-> None,
               frontier |-> fr]
         ELSE IF h.message_type \notin Handled
         THEN [end |-> "unhandled", emitted |-> acc, rest |-> None,
               frontier |-> fr]
         ELSE LET r == payload(h, b, p1) IN
              IF ~r.ok
              THEN [end |-> "payload_error", emitted |-> acc, rest |-> None,
                    frontier |-> fr]
              ELSE IF ~r.some
              THEN [end |-> "rewind", emitted |-> acc,
                    rest |-> Some(Rewound(b, p1)), frontier |-> fr]
              ELSE Loop(b, r.pos, Append(acc, [header |-> h, msg |-> r.msg]),
                        fr \/ h.message_type = "FrontierReq")

DecodeErrors == {"header_error", "unhandled", "payload_error"}

ErrorResultAlways(abort, end) == IF end = "unhandled" THEN "ok" ELSE "err"

(* What dump returns when the loop is left on a failure (pcap.rs:241-246,  *)
(* 255-260, 285-288, 296-301).                                             *)
ErrorResult(abort, end) ==
    IF ~abort THEN "running"
    ELSE IF end = "unhandled" THEN "ok"
    ELSE "err"

-----------------------------------------------------------------------------
(* The capture: addresses, ports, streams and the bytes they carry.        *)

AddrA == "10.0.0.1"
AddrB == "10.0.0.2"
AddrC == "10.0.0.3"

Endpoint(sip, sport, dip, dport) ==
    [sip |-> sip, sport |-> sport, dip |-> dip, dport |-> dport]

Reverse(p) == Endpoint(p.dip, p.dport, p.sip, p.sport)

(* A client of B's node port, the answers to it, a connection between the  *)
(* same two hosts with the two port numbers the other way round, and a     *)
(* stream that does not touch the node port.                               *)
S1 == Endpoint(AddrA, "5000", AddrB, DEFAULT_PORT)
S2 == Reverse(S1)
S3 == Endpoint(AddrA, DEFAULT_PORT, AddrB, "5000")
S4 == Endpoint(AddrA, "5000", AddrB, "6000")
Streams == {S1, S2, S3, S4}

Hdr(net, mt, e1, e2) == <<net, VersionMax, VersionUsing, VersionMin, mt, e1, e2>>
Body(n) == [i \in 1..n |-> 100 + i]

TelemetryReqMsg == Hdr(NetworkLive, 12, 0, 0)
TelemetryAckMsg == Hdr(NetworkLive, 13, 0, 0) \o Body(TelemetryAckLEN)
KeepaliveMsg == Hdr(NetworkLive, 2, 0, 0) \o Body(KeepaliveLen)
FrontierReqMsg == Hdr(NetworkLive, 8, 0, 0) \o Body(FrontierReqLEN)
HandshakeMsg == Hdr(NetworkLive, 10, 0, 0)
PublishSendMsg == Hdr(NetworkLive, 3, 0, 2) \o Body(BlockLEN("Send"))
ConfirmReqMsg == Hdr(NetworkBeta, 4, 0, 16) \o Body(HashPairLEN)
ConfirmAckMsg == Hdr(NetworkTest, 5, 0, 0) \o Body(VoteHeadLEN)
(* malformed or unhandled input *)
BadNetworkMsg == Hdr(0, 12, 0, 0)
BulkPullMsg == Hdr(NetworkLive, 6, 0, 0)
PublishInvalidMsg == Hdr(NetworkLive, 3, 0, 0)

(* Every well-formed message of a handled type the captures are made of. *)
GoodMsgs ==
    {TelemetryReqMsg, TelemetryAckMsg, KeepaliveMsg, FrontierReqMsg,
     HandshakeMsg, PublishSendMsg, ConfirmReqMsg, ConfirmAckMsg}

Capture(a, b, c, d) == (S1 :> a) @@ (S2 :> b) @@ (S3 :> c) @@ (S4 :> d)

Captures ==
    { Capture(KeepaliveMsg, <<>>, <<>>, <<>>),
      Capture(FrontierReqMsg \o TelemetryReqMsg, <<>>, TelemetryReqMsg, <<>>),
      Capture(TelemetryAckMsg \o BulkPullMsg \o TelemetryReqMsg, <<>>, <<>>, <<1>>),
      Capture(BadNetworkMsg \o ConfirmReqMsg, ConfirmAckMsg, <<>>, <<>>),
      Capture(PublishInvalidMsg \o TelemetryReqMsg, PublishSendMsg, <<>>, <<>>),
      Capture(ConfirmReqMsg \o PublishSendMsg, <<>>, <<>>, <<>>) }

(* The payload cuts of the next packet: any non-empty prefix of what a     *)
(* stream still carries, or an empty segment (a bare ACK) of S2.           *)
Cuts(w) ==
    UNION {{<<s, k>> : k \in 1..Len(w[s])} : s \in Streams} \cup {<<S2, 0>>}

SubjectAuto == [auto |-> TRUE]
SubjectSpecified(ip) == [auto |-> FALSE, ip |-> ip]

-----------------------------------------------------------------------------
(* One iteration of 'next_packet for an IPv4/TCP packet of stream s with   *)
(* payload data (pcap.rs:97-331): the new values of the fields and locals. *)

Direction(s, subj) ==
    IF s.dip = subj THEN "Recv" ELSE IF s.sip = subj THEN "Send" ELSE "Recv"

(* has_started after the start window check; FALSE means `continue`        *)
(* (pcap.rs:140-151).                                                      *)
Started(started, start, idx) ==
    IF started THEN TRUE
    ELSE IF start.some THEN start.val >= idx
    ELSE TRUE

PastEnd(end, idx) == end.some /\ idx > end.val

PortFiltered(s) == s.dport # DEFAULT_PORT /\ s.sport # DEFAULT_PORT

AddrFiltered(s, f) == f.some /\ s.sip # f.val /\ s.dip # f.val

Keep(kind, s) ==
    [cont |-> stream_cont, fronts |-> frontiers, res |-> "running",
     emitted |-> <<>>, handed |-> FALSE, met |-> {},
     last |-> [kind |-> kind, stream |-> s, end |-> "", data |-> <<>>,
               chunk |-> <<>>, emitted |-> <<>>, had |-> None,
               logged |-> FALSE]]

Reassemble(s, data, idx) ==
    LET sid == stream_id(s)
        cid == connection_id(s)
        had == IF sid \in DOMAIN stream_cont THEN Some(stream_cont[sid][2]) ELSE None
        bytes == Prepend(stream_cont, sid, data)
        removed == MapRemove(stream_cont, sid)
    IN
    IF cid \in frontiers
    THEN [cont |-> removed, fronts |-> frontiers, res |-> "panic",
          emitted |-> <<>>, handed |-> TRUE, met |-> {"frontier"},
          last |-> [kind |-> "frontier", stream |-> s, end |-> "", data |-> data,
                    chunk |-> bytes, emitted |-> <<>>, had |-> had,
                    logged |-> FALSE]]
    ELSE LET r == Loop(bytes, 0, <<>>, FALSE)
             failed == r.end \in DecodeErrors
         IN
         [cont |-> IF r.rest.some THEN MapInsert(removed, sid, <<idx, r.rest.val>>)
                   ELSE removed,
          fronts |-> IF r.frontier THEN frontiers \cup {cid} ELSE frontiers,
          res |-> IF failed THEN ErrorResult(abort_on_error, r.end) ELSE "running",
          emitted |-> r.emitted, handed |-> TRUE,
          met |-> IF failed THEN {"error"} ELSE {},
          last |-> [kind |-> "loop", stream |-> s, end |-> r.end, data |-> data,
                    chunk |-> bytes, emitted |-> r.emitted, had |-> had,
                    logged |-> failed]]

DumpPacket(s, data, idx) ==
    IF ~Started(has_started, start_at, idx) THEN Keep("before_start", s)
    ELSE IF PastEnd(end_at, idx) THEN [Keep("end_at", s) EXCEPT !.res = "ok"]
    ELSE IF Len(data) = 0 THEN Keep("empty", s)
    ELSE IF PortFiltered(s) THEN Keep("port", s)
    ELSE IF AddrFiltered(s, filter_addr) THEN Keep("addr", s)
    ELSE Reassemble(s, data, idx)

Printed(s, subj, emitted) ==
    [i \in 1..Len(emitted) |->
        [stream |-> stream_id(s), direction |-> Direction(s, subj),
         header |-> emitted[i].header, msg |-> emitted[i].msg]]

-----------------------------------------------------------------------------
(* Actions *)

NoLast ==
    [kind |-> "none", stream |-> S1, end |-> "", data |-> <<>>, chunk |-> <<>>,
     emitted |-> <<>>, had |-> None, logged |-> FALSE]

NoBlock == [block |-> [type |-> "none"], work |-> None, signature |-> None]

(* No FullBlock is in use. *)
BlockIdle ==
    /\ fb = NoBlock
    /\ made = None
    /\ ret = [kind |-> "ok", val |-> TRUE]
    /\ lastop = [op |-> "none"]

(* PcapDump::new(subject) followed by the caller's choice of the public    *)
(* fields (pcap.rs:64-81), at the start of dump.                           *)
InitDump(aborts, starts, ends, filters, subjects, captures) ==
    /\ stream_cont = <<>>
    /\ frontiers = {}
    /\ abort_on_error \in aborts
    /\ start_at \in starts
    /\ end_at \in ends
    /\ filter_addr \in filters
    /\ subject \in subjects
    /\ found_subject = IF subject.auto THEN None ELSE Some(subject.ip)
    /\ has_started = FALSE
    /\ packet_idx = 0
    /\ result = "running"
    /\ out = <<>>
    /\ wire \in captures
    /\ sent = [s \in Streams |-> <<>>]
    /\ npk = [s \in Streams |-> 0]
    /\ bad = [s \in Streams |-> {}]
    /\ last = NoLast

(* No connection is open. *)
ChannelIdle ==
    /\ rpc = "none"
    /\ rchunk = <<>>
    /\ nread = 0
    /\ eof_seen = FALSE
    /\ inq = <<>>
    /\ cpc = "none"
    /\ cbuf = <<>>
    /\ decoded = <<>>
    /\ outq = <<>>
    /\ wpc = "none"
    /\ wbuf = <<>>
    /\ written = <<>>
    /\ queued = <<>>

NoHandshake ==
    [op |-> "none", found |-> None, reached |-> FALSE, verified |-> FALSE,
     replied |-> FALSE]

(* The socket addresses of the model: two peers on the node port and a     *)
(* second port of one of them.                                             *)
SocketAddrs ==
    { [ip |-> "10.0.0.2", port |-> "7075"],
      [ip |-> "10.0.0.3", port |-> "7075"],
      [ip |-> "10.0.0.2", port |-> "7076"] }

(* set_cookie has not been called for any address. *)
NeverSet == [a \in SocketAddrs |-> <<>>]

(* No handshake is in progress. *)
HandshakeIdle ==
    /\ cookies = <<>>
    /\ cset = NeverSet
    /\ peer_addr = [ip |-> "", port |-> ""]
    /\ hsent = <<>>
    /\ hret = Return(TRUE)
    /\ hlast = NoHandshake
    /\ queried = FALSE
    /\ nchecks = 0

(* The Keepalive codec is not in use. *)
KeepaliveIdle ==
    /\ kdata = <<>>
    /\ kmsg = None
    /\ kret = Return(TRUE)
    /\ kop = [op |-> "none"]

Init ==
    /\ \/ InitDump(BOOLEAN, {None}, {None}, {None}, {SubjectAuto}, Captures)
       \/ InitDump({FALSE}, {None}, {None}, {None}, {SubjectSpecified(AddrB)},
                   {Capture(HandshakeMsg, TelemetryReqMsg, <<>>, <<>>)})
    /\ BlockIdle
    /\ KeepaliveIdle
    /\ ChannelIdle
    /\ HandshakeIdle

(* The next packet of the capture is an IPv4/TCP packet of stream s        *)
(* carrying the next k bytes of the stream.                                *)
Packet(s, k) ==
    /\ result = "running"
    /\ packet_idx < MaxPackets
    /\ LET idx == packet_idx + 1
           data == SubSeq(wire[s], 1, k)
           fs == IF subject.auto /\ ~found_subject.some THEN Some(s.sip)
                 ELSE found_subject
       IN
       \E d \in {DumpPacket(s, data, idx)} :
       /\ packet_idx' = idx
       /\ found_subject' = fs
       /\ has_started' = Started(has_started, start_at, idx)
       /\ stream_cont' = d.cont
       /\ frontiers' = d.fronts
       /\ result' = d.res
       /\ out' = out \o Printed(s, fs.val, d.emitted)
       /\ last' = d.last
       /\ wire' = [wire EXCEPT ![s] = SubSeq(wire[s], k + 1, Len(wire[s]))]
       /\ sent' = IF d.handed THEN [sent EXCEPT ![s] = sent[s] \o data] ELSE sent
       /\ npk' = IF d.handed THEN [npk EXCEPT ![s] = npk[s] + 1] ELSE npk
       /\ bad' = [bad EXCEPT ![s] = bad[s] \cup d.met]
    /\ UNCHANGED <<abort_on_error, start_at, end_at, filter_addr, subject>>
    /\ UNCHANGED notdump

(* The next packet is not IPv4/TCP or does not parse (pcap.rs:110-122). *)
SkipPacket ==
    /\ result = "running"
    /\ packet_idx < MaxPackets
    /\ packet_idx' = packet_idx + 1
    /\ last' = [NoLast EXCEPT !.kind = "skip"]
    /\ UNCHANGED <<stream_cont, frontiers, abort_on_error, start_at, end_at,
                   filter_addr, subject, found_subject, has_started, result,
                   out, wire, sent, npk, bad>>
    /\ UNCHANGED notdump

(* The capture has no more packets (pcap.rs:104-106). *)
EndOfFile ==
    /\ result = "running"
    /\ packet_idx' = packet_idx + 1
    /\ result' = "ok"
    /\ last' = [NoLast EXCEPT !.kind = "eof"]
    /\ UNCHANGED <<stream_cont, frontiers, abort_on_error, start_at, end_at,
                   filter_addr, subject, found_subject, has_started,
                   out, wire, sent, npk, bad>>
    /\ UNCHANGED notdump

ReadPacket == \E c \in Cuts(wire) : Packet(c[1], c[2])

Next == ReadPacket \/ SkipPacket \/ EndOfFile

Spec == Init /\ [][Next]_vars

(* dump with a packet window and an address filter set by the caller       *)
(* (pcap.rs:54-56), on a capture with data in both directions of one       *)
(* connection and on a stream off the node port.                           *)
WindowStarts == {None, Some(0), Some(2)}
WindowEnds == {None, Some(2)}
WindowFilters == {None, Some(AddrC)}
WindowCaptures == {Capture(TelemetryAckMsg, ConfirmAckMsg, <<>>, <<1>>)}

InitWindow ==
    /\ InitDump({FALSE}, WindowStarts, WindowEnds, WindowFilters, {SubjectAuto},
                WindowCaptures)
    /\ BlockIdle
    /\ KeepaliveIdle
    /\ ChannelIdle
    /\ HandshakeIdle

SpecWindow == InitWindow /\ [][Next]_vars

-----------------------------------------------------------------------------
(* Block and FullBlock (blocks/mod.rs).  A field is one value; the account *)
(* fields hold public keys.                                                *)

NumKeys == 2
FieldMax == 1

Privates == 1..NumKeys
(* Private::to_public *)
PublicOf(private) == 10 + private
Publics == {PublicOf(k) : k \in Privates}
Values == 0..FieldMax

SendBlocks ==
    [type : {"Send"}, previous : Values, destination : Publics, balance : Values]
ReceiveBlocks == [type : {"Receive"}, previous : Values, source : Values]
OpenBlocks ==
    [type : {"Open"}, source : Values, representative : Publics, account : Publics]
ChangeBlocks == [type : {"Change"}, previous : Values, representative : Publics]
StateBlocks ==
    [type : {"State"}, account : Publics, previous : Values,
     representative : Publics, balance : Values, link : Values]

BaseBlocks ==
    { [type |-> "Send", previous |-> 0, destination |-> PublicOf(1), balance |-> 0],
      [type |-> "Receive", previous |-> 0, source |-> 0],
      [type |-> "Open", source |-> 0, representative |-> PublicOf(1),
       account |-> PublicOf(1)],
      [type |-> "Change", previous |-> 0, representative |-> PublicOf(1)],
      [type |-> "State", account |-> PublicOf(1), previous |-> 0,
       representative |-> PublicOf(1), balance |-> 0, link |-> 0] }

(* The blocks of the model: of each variant, one block and every block     *)
(* that differs from it in a single field.                                 *)
Blocks ==
    { b \in SendBlocks \cup ReceiveBlocks \cup OpenBlocks \cup ChangeBlocks
            \cup StateBlocks :
        \E base \in BaseBlocks :
            /\ base.type = b.type
            /\ Cardinality({f \in DOMAIN b : b[f] # base[f]}) <= 1 }

(* An ideal hash function: distinct preimages have distinct digests. *)
Blake2b(v) == [digest |-> v]

(* Public::verify and Private::sign of an ideal signature scheme: a        *)
(* signature verifies under the signer's public key for the signed message *)
(* only.                                                                   *)
PrivateSign(private, msg) == [signer |-> PublicOf(private), msg |-> msg]
PublicVerify(public, msg, sig) == sig = [signer |-> public, msg |-> msg]

(* A signature that no call of sign produced. *)
ForgedSignature == [signer |-> 0, msg |-> Blake2b(<<>>)]

RECURSIVE Concat(_)
Concat(parts) == IF parts = <<>> THEN <<>> ELSE Head(parts) \o Concat(Tail(parts))

(* hash_block(parts) (blocks/mod.rs:163-169) *)
hash_block(parts) == Blake2b(Concat(parts))

(* The preimage of each variant whose hash is implemented. *)
SendBlockHash(x) == hash_block(<< <<x.previous>>, <<x.destination>>, <<x.balance>> >>)
OpenBlockHash(x) == hash_block(<< <<x.source>>, <<x.representative>>, <<x.account>> >>)
StateBlockHash(x) ==
    hash_block(<< <<6>>, <<x.account>>, <<x.previous>>, <<x.representative>>,
                  <<x.balance>>, <<x.link>> >>)

HashIgnoresFields(block) == Return(hash_block(<< <<block.type>> >>))

(* FullBlock::hash (blocks/mod.rs:88-97) *)
FullBlockHash(block) ==
    CASE block.type = "Send" -> Return(SendBlockHash(block))
      [] block.type = "Open" -> Return(OpenBlockHash(block))
      [] block.type = "State" -> Return(StateBlockHash(block))
      [] OTHER -> Panic

(* FullBlock::new (blocks/mod.rs:75-81) *)
new(block) == [block |-> block, work |-> None, signature |-> None]

set_work_clears(f, work) == [f EXCEPT !.work = Some(work), !.signature = None]

(* FullBlock::set_work (blocks/mod.rs:103-106) *)
set_work(f, work) == [f EXCEPT !.work = Some(work)]

(* FullBlock::set_signature (blocks/mod.rs:112-115) *)
set_signature(f, signature) == [f EXCEPT !.signature = Some(signature)]

verify_signature_any(f, account) ==
    LET hash == FullBlockHash(f.block) IN
    IF hash.kind # "ok" THEN hash
    ELSE IF ~f.signature.some THEN Failure("Signature missing")
    ELSE Return(f.signature.val.signer = account)

(* FullBlock::verify_signature (blocks/mod.rs:117-121) *)
verify_signature(f, account) ==
    LET hash == FullBlockHash(f.block) IN
    IF hash.kind # "ok" THEN hash
    ELSE IF ~f.signature.some THEN Failure("Signature missing")
    ELSE Return(PublicVerify(account, hash.val, f.signature.val))

(* FullBlock::sign (blocks/mod.rs:123-127); signs is whether private.sign  *)
(* returned a signature.  The result holds the FullBlock afterwards.       *)
sign(f, private, signs) ==
    LET hash == FullBlockHash(f.block) IN
    IF hash.kind # "ok" THEN [ret |-> hash, fb |-> f]
    ELSE IF ~signs THEN [ret |-> Failure("sign"), fb |-> f]
    ELSE [ret |-> Return(TRUE),
          fb |-> set_signature(f, PrivateSign(private, hash.val))]

(* No operation reads the work: one value stands for all. *)
Works == {0}

(* FullBlock::balance (blocks/mod.rs:147-152) *)
balance(f) ==
    CASE f.block.type = "Send" -> Return(Some(f.block.balance))
      [] OTHER -> Panic

(* FullBlock::previous (blocks/mod.rs:154-160) *)
previous(f) ==
    CASE f.block.type = "Open" -> Return(None)
      [] f.block.type = "Send" -> Return(Some(f.block.previous))
      [] OTHER -> Panic

(* A panic ends the thread that uses the FullBlock. *)
Alive == ret.kind # "panic"

New(block) ==
    /\ Alive
    /\ fb' = new(block)
    /\ ret' = Return(TRUE)
    /\ lastop' = [op |-> "new"]
    /\ UNCHANGED made
    /\ UNCHANGED notblock

SetWork(work) ==
    /\ Alive
    /\ fb' = set_work(fb, work)
    /\ ret' = Return(TRUE)
    /\ lastop' = [op |-> "set_work"]
    /\ UNCHANGED made
    /\ UNCHANGED notblock

(* The caller passes the signature an earlier sign produced, or one that   *)
(* no sign produced.                                                       *)
SetSignature(signature) ==
    /\ Alive
    /\ fb' = set_signature(fb, signature)
    /\ ret' = Return(TRUE)
    /\ lastop' = [op |-> "set_signature"]
    /\ UNCHANGED made
    /\ UNCHANGED notblock

Sign(private, signs) ==
    /\ Alive
    /\ \E r \in {sign(fb, private, signs)} :
          /\ fb' = r.fb
          /\ ret' = r.ret
          /\ made' = IF r.ret.kind = "ok"
                     THEN Some([signature |-> r.fb.signature.val,
                                block |-> fb.block, private |-> private])
                     ELSE made
    /\ lastop' = [op |-> "sign", private |-> private]
    /\ UNCHANGED notblock

VerifySignature(account) ==
    /\ Alive
    /\ ret' = verify_signature(fb, account)
    /\ lastop' = [op |-> "verify_signature", account |-> account]
    /\ UNCHANGED <<fb, made>>
    /\ UNCHANGED notblock

Balance ==
    /\ Alive
    /\ ret' = balance(fb)
    /\ lastop' = [op |-> "balance"]
    /\ UNCHANGED <<fb, made>>
    /\ UNCHANGED notblock

Previous ==
    /\ Alive
    /\ ret' = previous(fb)
    /\ lastop' = [op |-> "previous"]
    /\ UNCHANGED <<fb, made>>
    /\ UNCHANGED notblock

(* dump is not running. *)
DumpIdle ==
    InitDump({FALSE}, {None}, {None}, {None}, {SubjectAuto},
             {Capture(<<>>, <<>>, <<>>, <<>>)})

InitBlock ==
    /\ DumpIdle
    /\ KeepaliveIdle
    /\ ChannelIdle
    /\ HandshakeIdle
    /\ \E block \in Blocks : fb = new(block)
    /\ made = None
    /\ ret = Return(TRUE)
    /\ lastop = [op |-> "new"]

NewBlock == \E block \in Blocks : New(block)
SetWorkAny == \E work \in Works : SetWork(work)
SetSignatureAny ==
    \E signature \in {ForgedSignature}
                        \cup (IF made.some THEN {made.val.signature} ELSE {}) :
        SetSignature(signature)
SignAny == \E private \in Privates, signs \in BOOLEAN : Sign(private, signs)
VerifySignatureAny == \E account \in Publics : VerifySignature(account)

NextBlock ==
    \/ NewBlock
    \/ SetWorkAny
    \/ SetSignatureAny
    \/ SignAny
    \/ VerifySignatureAny
    \/ Balance
    \/ Previous

SpecBlock == InitBlock /\ [][NextBlock]_vars

-----------------------------------------------------------------------------
(* FullBlock as JSON: the Serialize and Deserialize impls derived for      *)
(* Block and FullBlock (blocks/mod.rs:52-72).  A JSON object is a function *)
(* from its keys to its values.  The impls of the field types are not part *)
(* of these sources: a field's JSON value is the name of its text form     *)
(* with the value it stands for.                                           *)

JsonNull == <<"null">>
ToHex(v) == <<"hex", v>>
ToAddress(public) == <<"nano_", public>>
ToDecimal(v) == <<"dec", v>>

(* The text form of each field, by its key. *)
FieldForm(k) ==
    CASE k \in {"previous", "source", "link", "work", "signature"} -> "hex"
      [] k \in {"destination", "representative", "account"} -> "nano_"
      [] k = "balance" -> "dec"

FieldToJson(k, v) == <<FieldForm(k), v>>

(* Parsing a field: the text must have the form of the field's type. *)
FieldFromJson(k, j) ==
    IF Len(j) = 2 /\ j[1] = FieldForm(k) THEN Ok(j[2]) ELSE Err("invalid value")

(* The fields of each variant's struct. *)
FieldNames(type) ==
    CASE type = "Send" -> {"previous", "destination", "balance"}
      [] type = "Receive" -> {"previous", "source"}
      [] type = "Open" -> {"source", "representative", "account"}
      [] type = "Change" -> {"previous", "representative"}
      [] type = "State" ->
            {"account", "previous", "representative", "balance", "link"}

VariantNames == {"Send", "Receive", "Open", "Change", "State"}

VariantTagAsWritten(type) == type

(* #[serde(rename_all = "snake_case")] (blocks/mod.rs:54): the tag written *)
(* for a variant.                                                          *)
VariantTag(type) ==
    CASE type = "Send" -> "send"
      [] type = "Receive" -> "receive"
      [] type = "Open" -> "open"
      [] type = "Change" -> "change"
      [] type = "State" -> "state"

(* The variant a tag read from the "type" key selects. *)
VariantOfTag(tag) ==
    CASE tag = "send" -> Some("Send")
      [] tag = "receive" -> Some("Receive")
      [] tag = "open" -> Some("Open")
      [] tag = "change" -> Some("Change")
      [] tag = "state" -> Some("State")
      [] OTHER -> None

OptionToJson(k, o) == IF o.some THEN FieldToJson(k, o.val) ELSE JsonNull

(* serde_json::to_string(&full_block): the tag under "type"                *)
(* (#[serde(tag = "type")], blocks/mod.rs:53), the variant's fields beside *)
(* it (#[serde(flatten)], blocks/mod.rs:68), then work and signature, null *)
(* when None (blocks/mod.rs:70-71).                                        *)
to_string(f) ==
    [k \in {"type"} \cup FieldNames(f.block.type) \cup {"work", "signature"} |->
        CASE k = "type" -> VariantTag(f.block.type)
          [] k = "work" -> OptionToJson(k, f.work)
          [] k = "signature" -> OptionToJson(k, f.signature)
          [] OTHER -> FieldToJson(k, f.block[k])]

(* An Option field read from an object: None when the key is missing or    *)
(* its value is null.                                                      *)
OptionFromJson(j, k) ==
    IF k \notin DOMAIN j \/ j[k] = JsonNull THEN Ok(None)
    ELSE LET v == FieldFromJson(k, j[k]) IN
         IF v.ok THEN Ok(Some(v.val)) ELSE v

(* serde_json::from_str::<FullBlock>(json) (blocks/mod.rs:52-72) *)
from_str(j) ==
    IF "type" \notin DOMAIN j THEN Err("missing field type")
    ELSE LET variant == VariantOfTag(j["type"]) IN
    IF ~variant.some THEN Err("unknown variant")
    ELSE LET names == FieldNames(variant.val)
             work == OptionFromJson(j, "work")
             signature == OptionFromJson(j, "signature")
         IN
    IF \E k \in names : k \notin DOMAIN j THEN Err("missing field")
    ELSE IF \E k \in names : ~FieldFromJson(k, j[k]).ok THEN Err("invalid value")
    ELSE IF ~work.ok THEN work
    ELSE IF ~signature.ok THEN signature
    ELSE Ok([block |-> [k \in {"type"} \cup names |->
                          IF k = "type" THEN variant.val
                          ELSE FieldFromJson(k, j[k]).val],
             work |-> work.val, signature |-> signature.val])

(* Network::Live.genesis_block(): an open block whose account is its own   *)
(* representative, with work, signed by the account's key.                 *)
GenesisOpen ==
    [type |-> "Open", source |-> FieldMax, representative |-> PublicOf(1),
     account |-> PublicOf(1)]

genesis_block ==
    [block |-> GenesisOpen, work |-> Some(0),
     signature |-> Some(PrivateSign(1, OpenBlockHash(GenesisOpen)))]

(* genesis_json of tests::json (blocks/mod.rs:178-187) *)
genesis_json ==
    [type |-> "open",
     source |-> <<"hex", FieldMax>>,
     representative |-> <<"nano_", PublicOf(1)>>,
     account |-> <<"nano_", PublicOf(1)>>,
     work |-> <<"hex", 0>>,
     signature |-> <<"hex", PrivateSign(1, OpenBlockHash(GenesisOpen))>>]

(* The object without the key k. *)
WithoutKey(j, k) == [x \in DOMAIN j \ {k} |-> j[x]]

(* The texts given to from_str besides the one to_string returned: the     *)
(* genesis JSON, and objects that differ from it in one key.               *)
OtherTexts ==
    {genesis_json,
     WithoutKey(genesis_json, "work"),
     WithoutKey(genesis_json, "type"),
     WithoutKey(genesis_json, "source"),
     [genesis_json EXCEPT !["type"] = "Open"],
     [genesis_json EXCEPT !["account"] = <<"hex", PublicOf(1)>>],
     [genesis_json EXCEPT !["signature"] = <<"nano_", 0>>]}

(* The FullBlocks given to to_string: every block of the model, without    *)
(* and with work, without and with a signature.                            *)
FullBlocks ==
    { [block |-> b, work |-> w, signature |-> g] :
        b \in Blocks, w \in {None} \cup {Some(x) : x \in Works},
        g \in {None, Some(ForgedSignature), Some(PrivateSign(1, Blake2b(<<>>)))} }
        \cup {genesis_block}

InitJson ==
    /\ DumpIdle /\ KeepaliveIdle /\ ChannelIdle /\ HandshakeIdle
    /\ fb \in FullBlocks
    /\ made = None
    /\ ret = Return(TRUE)
    /\ lastop = [op |-> "new"]

(* serde_json::to_string(&fb) *)
ToStringCall ==
    /\ ret' = Return(to_string(fb))
    /\ lastop' = [op |-> "to_string"]
    /\ UNCHANGED <<fb, made>>
    /\ UNCHANGED notblock

(* fb = serde_json::from_str(text)?; of is the FullBlock the text was made *)
(* from, when to_string made it.                                           *)
FromStr(text, of) ==
    /\ \E parsed \in {from_str(text)} :
          /\ ret' = IF parsed.ok THEN Return(parsed.val) ELSE Failure(parsed.err)
          /\ fb' = IF parsed.ok THEN parsed.val ELSE fb
    /\ lastop' = [op |-> "from_str", text |-> text, of |-> of]
    /\ UNCHANGED made
    /\ UNCHANGED notblock

FromStrBack == lastop.op = "to_string" /\ FromStr(ret.val, Some(fb))
FromStrOther == \E text \in OtherTexts : FromStr(text, None)

NextJson == ToStringCall \/ FromStrBack \/ FromStrOther

SpecJson == InitJson /\ [][NextJson]_vars

-----------------------------------------------------------------------------
(* The Keepalive codec (node/src/messages/keepalive.rs) applied to payload *)
(* bytes of every length up to MaxExtra more than Keepalive::len.          *)

NumSeeds == 3
MaxExtra == 1

(* n bytes, all different: byte i is seed + step * i. *)
Payload(n, seed, step) == [i \in 1..n |-> (seed + step * i) % 256]

KeepaliveInputs ==
    { Payload(n, seed, step) :
        n \in 0..(KeepaliveLen + MaxExtra), seed \in 0..(NumSeeds - 1),
        step \in {1, 3} }

(* The header contexts a Wire call is given. *)
HeaderContexts ==
    {None, Some(HeaderDeserialize(SubSeq(KeepaliveMsg, 1, HeaderLEN)))}

(* dump and the FullBlock are not in use. *)
OthersIdle == DumpIdle /\ BlockIdle /\ ChannelIdle /\ HandshakeIdle

InitKeepalive ==
    /\ OthersIdle
    /\ kdata \in KeepaliveInputs
    /\ kmsg = None
    /\ kret = Return(TRUE)
    /\ kop = [op |-> "none"]

KeepaliveAlive == kret.kind # "panic"

(* Keepalive::deserialize(header, data) *)
Deserialize(header) ==
    /\ KeepaliveAlive
    /\ \E k \in {KeepaliveDeserialize(kdata)} :
          /\ kret' = IF k.ok THEN Return(k.val) ELSE Failure(k.err)
          /\ kmsg' = IF k.ok THEN Some(k.val) ELSE None
    /\ kop' = [op |-> "deserialize", header |-> header]
    /\ UNCHANGED kdata
    /\ UNCHANGED notkeepalive

(* Keepalive::len(header) (keepalive.rs:36-38) *)
LenCall(header) ==
    /\ KeepaliveAlive
    /\ kret' = Return(KeepaliveLen)
    /\ kop' = [op |-> "len", header |-> header]
    /\ UNCHANGED <<kdata, kmsg>>
    /\ UNCHANGED notkeepalive

(* serialize(&self) on the Keepalive value decoded before *)
Serialize ==
    /\ KeepaliveAlive
    /\ kmsg.some
    /\ kret' = KeepaliveSerialize(kmsg.val)
    /\ kop' = [op |-> "serialize"]
    /\ UNCHANGED <<kdata, kmsg>>
    /\ UNCHANGED notkeepalive

DeserializeAny == \E header \in HeaderContexts : Deserialize(header)
LenAny == \E header \in HeaderContexts : LenCall(header)

NextKeepalive == DeserializeAny \/ LenAny \/ Serialize

SpecKeepalive == InitKeepalive /\ [][NextKeepalive]_vars

-----------------------------------------------------------------------------
(* network_channel (node/channel.rs:48-87): the reader task, the writer    *)
(* loop, and between them the controller with its two bounded channels.    *)
(* Controller is not part of these sources: it takes the chunks of the     *)
(* inbound channel one at a time, may answer a chunk with one outbound     *)
(* buffer, and quits when the inbound channel is closed (the comment at    *)
(* channel.rs:58) or its outbound send fails.                              *)

MaxReads == 5
InCap == 1
OutCap == 1

(* The n-th read of the socket returns this chunk. *)
Chunk(n) == <<n>>
(* The controller's answer to a chunk. *)
Reply(chunk) == <<200>> \o chunk

(* The reader's tx is dropped when its task ends; the controller's tx when *)
(* the controller quits; the writer's rx when network_channel returns.     *)
InboundClosed == rpc = "panicked"
OutboundClosed == cpc = "stopped"
WriterReturned == wpc \in {"ok", "err"}

InitChannel ==
    /\ DumpIdle /\ BlockIdle /\ KeepaliveIdle /\ HandshakeIdle
    /\ rpc = "read"
    /\ rchunk = <<>>
    /\ nread = 0
    /\ eof_seen = FALSE
    /\ inq = <<>>
    /\ cpc = "recv"
    /\ cbuf = <<>>
    /\ decoded = <<>>
    /\ outq = <<>>
    /\ wpc = "recv"
    /\ wbuf = <<>>
    /\ written = <<>>
    /\ queued = <<>>

(* in_stream.read(&mut buffer) returns n > 0 bytes (channel.rs:67-70). *)
ReadData ==
    /\ rpc = "read"
    /\ ~eof_seen
    /\ nread < MaxReads
    /\ nread' = nread + 1
    /\ rchunk' = Chunk(nread + 1)
    /\ rpc' = "send"
    /\ UNCHANGED <<eof_seen, inq, cpc, cbuf, decoded, outq, wpc, wbuf, written>>
    /\ UNCHANGED queued
    /\ UNCHANGED notchan

(* The peer has closed the socket: read returns 0 bytes, now and on every  *)
(* later call; the 0 bytes are a chunk like any other (channel.rs:67-72).  *)
ReadZero ==
    /\ rpc = "read"
    /\ nread < MaxReads
    /\ nread' = nread + 1
    /\ eof_seen' = TRUE
    /\ rchunk' = <<>>
    /\ rpc' = "send"
    /\ UNCHANGED <<inq, cpc, cbuf, decoded, outq, wpc, wbuf, written>>
    /\ UNCHANGED queued
    /\ UNCHANGED notchan

(* read returns an error: expect panics and the task ends (channel.rs:70). *)
ReadError ==
    /\ rpc = "read"
    /\ rpc' = "panicked"
    /\ UNCHANGED <<rchunk, nread, eof_seen, inq, cpc, cbuf, decoded, outq, wpc,
                   wbuf, written>>
    /\ UNCHANGED queued
    /\ UNCHANGED notchan

(* tx.send(chunk).await (channel.rs:72-74): waits while the channel is     *)
(* full; fails, and expect panics, when the controller is gone.            *)
ReaderCanSendAfterWrite ==
    rpc = "send" /\ wpc # "write" /\ (cpc = "stopped" \/ Len(inq) < InCap)

ReaderCanSend == rpc = "send" /\ (cpc = "stopped" \/ Len(inq) < InCap)

ReaderSend ==
    /\ ReaderCanSend
    /\ IF cpc = "stopped"
       THEN rpc' = "panicked" /\ inq' = inq
       ELSE rpc' = "read" /\ inq' = Append(inq, rchunk)
    /\ UNCHANGED <<rchunk, nread, eof_seen, cpc, cbuf, decoded, outq, wpc, wbuf,
                   written>>
    /\ UNCHANGED queued
    /\ UNCHANGED notchan

(* The controller takes the next chunk and decodes it; it answers or not. *)
ControllerRecv(answers) ==
    /\ cpc = "recv"
    /\ inq # <<>>
    /\ inq' = Tail(inq)
    /\ decoded' = Append(decoded, Head(inq))
    /\ IF answers
       THEN cpc' = "send" /\ cbuf' = Reply(Head(inq))
       ELSE cpc' = "recv" /\ cbuf' = cbuf
    /\ UNCHANGED <<rpc, rchunk, nread, eof_seen, outq, wpc, wbuf, written>>
    /\ UNCHANGED queued
    /\ UNCHANGED notchan

(* The inbound channel is closed and empty: the controller quits. *)
ControllerQuit ==
    /\ cpc = "recv"
    /\ inq = <<>>
    /\ InboundClosed
    /\ cpc' = "stopped"
    /\ UNCHANGED <<rpc, rchunk, nread, eof_seen, inq, cbuf, decoded, outq, wpc,
                   wbuf, written>>
    /\ UNCHANGED queued
    /\ UNCHANGED notchan

(* The controller's outbound send: waits while the channel is full; fails, *)
(* and the controller quits, when network_channel has returned.            *)
ControllerCanSend == cpc = "send" /\ (WriterReturned \/ Len(outq) < OutCap)

ControllerSend ==
    /\ ControllerCanSend
    /\ IF WriterReturned
       THEN cpc' = "stopped" /\ outq' = outq /\ queued' = queued
       ELSE /\ cpc' = "recv"
            /\ outq' = Append(outq, cbuf)
            /\ queued' = Append(queued, cbuf)
    /\ UNCHANGED <<rpc, rchunk, nread, eof_seen, inq, cbuf, decoded, wpc, wbuf,
                   written>>
    /\ UNCHANGED notchan

(* rx.recv().await is Some(bytes) (channel.rs:80-81). *)
WriterRecv ==
    /\ wpc = "recv"
    /\ outq # <<>>
    /\ wbuf' = Head(outq)
    /\ outq' = Tail(outq)
    /\ wpc' = "write"
    /\ UNCHANGED <<rpc, rchunk, nread, eof_seen, inq, cpc, cbuf, decoded, written>>
    /\ UNCHANGED queued
    /\ UNCHANGED notchan

WriterClosedEarly ==
    /\ wpc = "recv"
    /\ outq = <<>>
    /\ wpc' = "ok"
    /\ UNCHANGED <<rpc, rchunk, nread, eof_seen, inq, cpc, cbuf, decoded, outq,
                   wbuf, written, queued>>
    /\ UNCHANGED notchan

(* rx.recv().await is None: return Ok(()) (channel.rs:82). *)
WriterClosed ==
    /\ wpc = "recv"
    /\ outq = <<>>
    /\ OutboundClosed
    /\ wpc' = "ok"
    /\ UNCHANGED <<rpc, rchunk, nread, eof_seen, inq, cpc, cbuf, decoded, outq,
                   wbuf, written>>
    /\ UNCHANGED queued
    /\ UNCHANGED notchan

WriteDoneInFront ==
    /\ wpc = "write"
    /\ written' = <<wbuf>> \o written
    /\ wpc' = "recv"
    /\ UNCHANGED <<rpc, rchunk, nread, eof_seen, inq, cpc, cbuf, decoded, outq,
                   wbuf, queued>>
    /\ UNCHANGED notchan

(* out_stream.write_all(&to_send).await completes (channel.rs:85). *)
WriteDone ==
    /\ wpc = "write"
    /\ written' = Append(written, wbuf)
    /\ wpc' = "recv"
    /\ UNCHANGED <<rpc, rchunk, nread, eof_seen, inq, cpc, cbuf, decoded, outq,
                   wbuf>>
    /\ UNCHANGED queued
    /\ UNCHANGED notchan

(* write_all fails: `?` returns the error (channel.rs:85). *)
WriteFail ==
    /\ wpc = "write"
    /\ wpc' = "err"
    /\ UNCHANGED <<rpc, rchunk, nread, eof_seen, inq, cpc, cbuf, decoded, outq,
                   wbuf, written>>
    /\ UNCHANGED queued
    /\ UNCHANGED notchan

ControllerRecvAny == \E answers \in BOOLEAN : ControllerRecv(answers)

ReaderStep == ReadData \/ ReadZero \/ ReadError \/ ReaderSend
ControllerStep == ControllerRecvAny \/ ControllerQuit \/ ControllerSend
WriterStep == WriterRecv \/ WriterClosed
WriteFinish == WriteDone \/ WriteFail

NextChannel ==
    \/ ReadData
    \/ ReadZero
    \/ ReadError
    \/ ReaderSend
    \/ ControllerRecvAny
    \/ ControllerQuit
    \/ ControllerSend
    \/ WriterRecv
    \/ WriterClosed
    \/ WriteDone
    \/ WriteFail

SpecChannel == InitChannel /\ [][NextChannel]_vars

(* The tasks are scheduled whenever they can run, and every write_all      *)
(* finishes, with success or with an error.                                *)
SpecChannelLive ==
    /\ SpecChannel
    /\ WF_vars(ControllerStep)
    /\ WF_vars(WriterStep)
    /\ WF_vars(WriteFinish)

-----------------------------------------------------------------------------
(* The node-id handshake: send_node_id_handshake and                       *)
(* recv_node_id_handshake (node/channel.rs:170-256, commented out in the   *)
(* source) over the cookie store (node/state/sled_disk.rs:64-79).          *)

NumCookies == 2
MaxChecks == 2

CookieVals == 1..NumCookies
(* Cookie::as_bytes *)
CookieBytes(c) == <<c>>

PeerAddrs == { [ip |-> "10.0.0.2", port |-> "7075"],
               [ip |-> "10.0.0.3", port |-> "7075"] }

(* format!("{}", socket_addr): the key of the cookies tree *)
FormatAddr(a) == a.ip \o ":" \o a.port

set_cookie_once(store, socket_addr, cookie) ==
    IF FormatAddr(socket_addr) \in DOMAIN store THEN store
    ELSE MapInsert(store, FormatAddr(socket_addr), CookieBytes(cookie))

(* SledDiskState::set_cookie (sled_disk.rs:64-68) *)
set_cookie(store, socket_addr, cookie) ==
    MapInsert(store, FormatAddr(socket_addr), CookieBytes(cookie))

(* SledDiskState::cookie_for_socket_addr (sled_disk.rs:70-79); the value   *)
(* is the cookie's bytes.                                                  *)
cookie_for_socket_addr(store, socket_addr) ==
    IF FormatAddr(socket_addr) \in DOMAIN store
    THEN Some(store[FormatAddr(socket_addr)])
    ELSE None

(* The history kept of the cookies set for an address: the last one and    *)
(* the one before it.                                                      *)
LastTwo(h, cookie) == IF h = <<>> THEN <<cookie>> ELSE <<h[Len(h)], cookie>>

(* A signature no key of the model made. *)
ForgedCookieSignature == [signer |-> 0, msg |-> <<0>>]

CookieSignatures ==
    {ForgedCookieSignature}
        \cup {PrivateSign(k, CookieBytes(c)) : k \in Privates, c \in CookieVals}

(* A received Handshake: the header's query and response bits and the      *)
(* parts of the payload they announce.                                     *)
HandshakeOf(q, r) ==
    [is_query |-> q.some, is_response |-> r.some, query |-> q, response |-> r]

HandshakeMsgs ==
    { HandshakeOf(q, r) :
        q \in {None} \cup {Some(c) : c \in CookieVals},
        r \in {None} \cup {Some([public |-> k, signature |-> g]) :
                                k \in Publics, g \in CookieSignatures} }

(* The outcome of one call of recv_node_id_handshake: its result, whether  *)
(* the response branch was entered, the cookie it found, whether the       *)
(* signature verified, and the messages sent to the peer.                  *)
Handled1(r, reached, found, verified, msgs) ==
    [ret |-> r, reached |-> reached, found |-> found, verified |-> verified,
     sent |-> msgs]

HandshakeReply(public, signature) ==
    [type |-> "Handshake", is_query |-> FALSE, is_response |-> TRUE,
     public |-> public, signature |-> signature]

(* The query branch (channel.rs:198-216): the reply to make, or the error. *)
QueryBranch(m, private, signs) ==
    LET public == PublicOf(private)
        signature == PrivateSign(private, CookieBytes(m.query.val))
    IN
    IF ~m.is_query THEN [end |-> "skip"]
    ELSE IF ~signs THEN [end |-> "err", err |-> "sign"]
    ELSE IF ~PublicVerify(public, CookieBytes(m.query.val), signature)
    THEN [end |-> "err", err |-> "Recv node id handshake"]
    ELSE [end |-> "respond", reply |-> HandshakeReply(public, signature)]

ResponseBranchTrusting(store, addr, m) ==
    LET found == cookie_for_socket_addr(store, addr) IN
    IF ~m.is_response THEN [end |-> "skip", found |-> None]
    ELSE IF ~found.some THEN [end |-> "nocookie", found |-> None]
    ELSE [end |-> "verified", found |-> found]

ResponseBranchStrict(store, addr, m) ==
    LET found == cookie_for_socket_addr(store, addr) IN
    IF ~m.is_response THEN [end |-> "skip", found |-> None]
    ELSE IF ~found.some THEN [end |-> "invalid", found |-> None]
    ELSE IF ~PublicVerify(m.response.val.public, found.val,
                          m.response.val.signature)
    THEN [end |-> "invalid", found |-> found]
    ELSE [end |-> "verified", found |-> found]

(* The response branch (channel.rs:218-244): no cookie stored ends the     *)
(* call with Ok(()), a signature that does not verify with an error.       *)
ResponseBranch(store, addr, m) ==
    LET found == cookie_for_socket_addr(store, addr) IN
    IF ~m.is_response THEN [end |-> "skip", found |-> None]
    ELSE IF ~found.some THEN [end |-> "nocookie", found |-> None]
    ELSE IF ~PublicVerify(m.response.val.public, found.val,
                          m.response.val.signature)
    THEN [end |-> "invalid", found |-> found]
    ELSE [end |-> "verified", found |-> found]

(* recv_node_id_handshake (channel.rs:189-256) for a received message m;   *)
(* private is Seed::random().derive(0), signs whether private.sign         *)
(* succeeds, sends whether the sends of the reply succeed.                 *)
recv_node_id_handshake(store, addr, m, private, signs, sends) ==
    LET q == QueryBranch(m, private, signs)
        r == ResponseBranch(store, addr, m)
        verified == r.end = "verified"
    IN
    IF q.end = "err"
    THEN Handled1(Failure(q.err), FALSE, None, FALSE, <<>>)
    ELSE IF r.end = "nocookie"
    THEN Handled1(Return(TRUE), TRUE, r.found, FALSE, <<>>)
    ELSE IF r.end = "invalid"
    THEN Handled1(Failure("Invalid signature in node_id_handshake response"),
                  TRUE, r.found, FALSE, <<>>)
    ELSE IF q.end = "respond" /\ ~sends
    THEN Handled1(Failure("send"), m.is_response, r.found, verified, <<>>)
    ELSE Handled1(Return(TRUE), m.is_response, r.found, verified,
                  IF q.end = "respond" THEN <<q.reply>> ELSE <<>>)

(* The connection is dropped when a handler returns an error. *)
ConnectionUp == hret.kind = "ok"

InitHandshake ==
    /\ DumpIdle /\ BlockIdle /\ KeepaliveIdle /\ ChannelIdle
    /\ peer_addr \in PeerAddrs
    /\ \/ cookies = <<>> /\ cset = NeverSet
       \/ \E a \in PeerAddrs :
             /\ cookies = set_cookie(<<>>, a, 1)
             /\ cset = [NeverSet EXCEPT ![a] = <<1>>]
    /\ hsent = <<>>
    /\ hret = Return(TRUE)
    /\ hlast = NoHandshake
    /\ queried = FALSE
    /\ nchecks = 0

(* send_node_id_handshake (channel.rs:170-186) *)
SendQuery(cookie) ==
    /\ ConnectionUp
    /\ queried' = TRUE
    /\ cookies' = set_cookie(cookies, peer_addr, cookie)
    /\ cset' = [cset EXCEPT ![peer_addr] = LastTwo(cset[peer_addr], cookie)]
    /\ hsent' = <<[type |-> "Handshake", is_query |-> TRUE, is_response |-> FALSE,
                   cookie |-> cookie]>>
    /\ hret' = Return(TRUE)
    /\ hlast' = [NoHandshake EXCEPT !.op = "send_query"]
    /\ nchecks' = 0
    /\ UNCHANGED peer_addr
    /\ UNCHANGED nothand

(* recv_node_id_handshake on the next Handshake message of the peer *)
RecvHandshake(m, private, signs, sends) ==
    /\ ConnectionUp
    /\ nchecks < MaxChecks
    /\ \E h \in {recv_node_id_handshake(cookies, peer_addr, m, private, signs,
                                         sends)} :
          /\ hret' = h.ret
          /\ hsent' = h.sent
          /\ hlast' = [op |-> "recv", msg |-> m, found |-> h.found,
                       reached |-> h.reached, verified |-> h.verified,
                       replied |-> h.sent # <<>>, signs |-> signs,
                       sends |-> sends,
                       before |-> cookies]
          /\ nchecks' = IF h.reached /\ h.found.some THEN nchecks + 1 ELSE nchecks
    /\ UNCHANGED <<cookies, peer_addr, queried, cset>>
    /\ UNCHANGED nothand

SendQueryAny == \E cookie \in CookieVals : SendQuery(cookie)
(* The key and the outcomes of signing and sending matter to a message    *)
(* with the query bit only.                                                *)
NodePrivates == {1, NumKeys}
Outcomes(m) ==
    IF m.is_query
    THEN {<<k, io[1], io[2]>> :
            k \in NodePrivates,
            io \in {<<TRUE, TRUE>>, <<FALSE, TRUE>>, <<TRUE, FALSE>>}}
    ELSE {<<1, TRUE, TRUE>>}

RecvHandshakeAny ==
    \E m \in HandshakeMsgs :
        \E o \in Outcomes(m) : RecvHandshake(m, o[1], o[2], o[3])

NextHandshake == SendQueryAny \/ RecvHandshakeAny

SpecHandshake == InitHandshake /\ [][NextHandshake]_vars

-----------------------------------------------------------------------------
(* The cookie store on its own (node/state/sled_disk.rs:64-79): calls of   *)
(* set_cookie and cookie_for_socket_addr in any order on a store that      *)
(* starts empty.  peer_addr is the address of the last call, hret its      *)
(* result and hlast the store before it.                                   *)

InitCookies ==
    /\ DumpIdle /\ BlockIdle /\ KeepaliveIdle /\ ChannelIdle
    /\ cookies = <<>>
    /\ cset = NeverSet
    /\ peer_addr \in SocketAddrs
    /\ hsent = <<>>
    /\ hret = Return(TRUE)
    /\ hlast = NoHandshake
    /\ queried = FALSE
    /\ nchecks = 0

SetCookie(socket_addr, cookie) ==
    /\ cookies' = set_cookie(cookies, socket_addr, cookie)
    /\ cset' = [cset EXCEPT ![socket_addr] = LastTwo(cset[socket_addr], cookie)]
    /\ peer_addr' = socket_addr
    /\ hret' = Return(TRUE)
    /\ hlast' = [op |-> "set_cookie", before |-> cookies]
    /\ UNCHANGED <<hsent, queried, nchecks>>
    /\ UNCHANGED nothand

CookieForSocketAddr(socket_addr) ==
    /\ hret' = Return(cookie_for_socket_addr(cookies, socket_addr))
    /\ peer_addr' = socket_addr
    /\ hlast' = [op |-> "cookie_for_socket_addr", before |-> cookies]
    /\ UNCHANGED <<cookies, cset, hsent, queried, nchecks>>
    /\ UNCHANGED nothand

SetCookieAny == \E a \in SocketAddrs, c \in CookieVals : SetCookie(a, c)
CookieForSocketAddrAny == \E a \in SocketAddrs : CookieForSocketAddr(a)

NextCookies == SetCookieAny \/ CookieForSocketAddrAny

SpecCookies == InitCookies /\ [][NextCookies]_vars

-----------------------------------------------------------------------------
(* Vocabulary of the properties of dump.                                   *)

HasLeftover(s) == stream_id(s) \in DOMAIN stream_cont
Leftover(s) == IF HasLeftover(s) THEN Some(stream_cont[stream_id(s)][2]) ELSE None

(* The (Header, Message) pairs printed for stream s, in order. *)
OutOf(s) ==
    LET OfS(e) == e.stream = stream_id(s)
        q == SelectSeq(out, OfS)
    IN [i \in 1..Len(q) |-> [header |-> q[i].header, msg |-> q[i].msg]]

(* The two socket endpoints of a stream: its connection. *)
Conn(p) == {<<p.sip, p.sport>>, <<p.dip, p.dport>>}

(* The pair a complete message's bytes stand for. *)
DecodedFrame(f) ==
    LET h == HeaderDeserialize(SubSeq(f, 1, HeaderLEN)) IN
    [header |-> h,
     msg |-> WireDeserialize(h.message_type, h.ext,
                             SubSeq(f, HeaderLEN + 1, Len(f))).val]

DecodedFrames(fs) == [i \in 1..Len(fs) |-> DecodedFrame(fs[i])]

(* The framing of a byte sequence as the specification gives it: the       *)
(* complete messages at its front, and what follows them: nothing          *)
(* ("complete"), the strict prefix of one more message ("partial"), or     *)
(* bytes that are no message of a handled type ("malformed").              *)
RECURSIVE RefFrames(_, _)
RefFrames(b, acc) ==
    IF b = <<>> THEN [kind |-> "complete", frames |-> acc, rest |-> b]
    ELSE IF Len(b) < HeaderLEN THEN [kind |-> "partial", frames |-> acc, rest |-> b]
    ELSE LET h == HeaderDeserialize(SubSeq(b, 1, HeaderLEN)) IN
         IF ~h.ok \/ h.message_type \notin Handled
         THEN [kind |-> "malformed", frames |-> acc, rest |-> b]
         ELSE LET n == WireLen(h.message_type, h.ext) IN
              IF ~n.ok THEN [kind |-> "malformed", frames |-> acc, rest |-> b]
              ELSE IF Len(b) < HeaderLEN + n.val
              THEN [kind |-> "partial", frames |-> acc, rest |-> b]
              ELSE RefFrames(SubSeq(b, HeaderLEN + n.val + 1, Len(b)),
                             Append(acc, SubSeq(b, 1, HeaderLEN + n.val)))

-----------------------------------------------------------------------------
(* C1: fragmentation invariance.  When the bytes of one message of a       *)
(* handled type have reached the reassembly of a stream in one packet or   *)
(* cut in two at any offset (and the stream's connection was not in        *)
(* frontier mode for either packet), exactly the pair the message stands   *)
(* for has been printed for the stream, once, which is what the loop       *)
(* prints for the whole message in one packet, and no leftover is pending. *)
C1_FragmentationInvariance ==
    \A s \in Streams :
        (npk[s] \in {1, 2} /\ "frontier" \notin bad[s] /\ sent[s] \in GoodMsgs) =>
            /\ OutOf(s) = <<DecodedFrame(sent[s])>>
            /\ OutOf(s) = Loop(sent[s], 0, <<>>, FALSE).emitted
            /\ ~HasLeftover(s)

(* A Keepalive cut inside its payload and completed by a second packet. *)
C1_Witness ==
    /\ npk[S1] = 2
    /\ sent[S1] = KeepaliveMsg
    /\ last.stream = S1
    /\ Len(last.data) < KeepaliveLen
    /\ Len(OutOf(S1)) = 1

(* C2: on a capture that holds packets of one stream only, whose bytes so  *)
(* far are complete messages back to back, possibly followed by the start  *)
(* of one more, every complete message has been printed exactly once, in   *)
(* stream order, and the started one is the pending leftover.              *)
C2_EveryMessageOnceInOrder ==
    \A s \in Streams :
        LET f == RefFrames(sent[s], <<>>) IN
        ((\A t \in Streams \ {s} : npk[t] = 0) /\ f.kind \in {"complete", "partial"}) =>
            /\ OutOf(s) = DecodedFrames(f.frames)
            /\ Leftover(s) = IF f.kind = "partial" THEN Some(f.rest) ELSE None

(* C3 as stated: at most one pending leftover per connection, and a packet *)
(* on a stream with a pending leftover either completes the fragment or    *)
(* extends it.                                                             *)
C3_CompletesOrExtends ==
    /\ \A s, t \in Streams :
          (HasLeftover(s) /\ HasLeftover(t) /\ Conn(s) = Conn(t)) => s = t
    /\ (last.kind \in {"loop", "frontier"} /\ last.had.some) =>
          \/ Len(last.emitted) > 0
          \/ Leftover(last.stream) = Some(last.had.val \o last.data)

(* C3 as amended: leftovers are kept per directed stream; a packet read on *)
(* a stream with a pending leftover while its connection is not in         *)
(* frontier mode completes the fragment (the first pair printed is decoded *)
(* from the leftover followed by the new bytes), or extends it (the new    *)
(* leftover is the old one followed by the new bytes), or meets a decode   *)
(* failure and then the pending bytes are discarded with the rest of the   *)
(* packet; in frontier mode the leftover is dropped and dump panics.       *)
C3_CompletesExtendsOrFails ==
    /\ (last.kind = "loop" /\ last.had.some) =>
          LET f == RefFrames(last.had.val \o last.data, <<>>) IN
          \/ /\ Len(last.emitted) > 0
             /\ Len(f.frames) > 0
             /\ last.emitted[1] = DecodedFrame(f.frames[1])
             /\ Len(f.frames[1]) > Len(last.had.val)
          \/ /\ last.emitted = <<>>
             /\ Leftover(last.stream) = Some(last.had.val \o last.data)
          \/ /\ last.emitted = <<>>
             /\ last.end \in DecodeErrors
             /\ ~HasLeftover(last.stream)
    /\ (last.kind = "frontier" /\ last.had.some) =>
          result = "panic" /\ ~HasLeftover(last.stream)

(* A leftover extended by a second packet that still does not complete     *)
(* the message.                                                            *)
C3_Witness ==
    /\ last.kind = "loop"
    /\ last.had.some
    /\ last.end = "rewind"
    /\ last.emitted = <<>>
    /\ Leftover(last.stream) = Some(last.had.val \o last.data)

(* C4: when the bytes the loop works on end inside a message (after the    *)
(* complete messages at their front comes the strict prefix of one more),  *)
(* the stream's leftover is exactly that prefix, from the first byte of    *)
(* its header, stamped with the packet's index; only the complete messages *)
(* are printed; dump goes on and logs no error, whatever abort_on_error.   *)
C4_IncompleteIsBuffered ==
    last.kind = "loop" =>
        LET f == RefFrames(last.chunk, <<>>) IN
        f.kind = "partial" =>
            /\ HasLeftover(last.stream)
            /\ stream_cont[stream_id(last.stream)] = <<packet_idx, f.rest>>
            /\ last.emitted = DecodedFrames(f.frames)
            /\ last.end \in {"short_header", "rewind"}
            /\ ~last.logged
            /\ result = "running"

(* With abort_on_error set: a message printed, then a header whose payload *)
(* is cut.                                                                 *)
C4_Witness ==
    /\ abort_on_error
    /\ last.kind = "loop"
    /\ last.end = "rewind"
    /\ Len(last.emitted) > 0
    /\ Len(stream_cont[stream_id(last.stream)][2]) > HeaderLEN

(* C5: a stream is treated as being in frontier mode only if a FrontierReq *)
(* was decoded on its own connection (the same two socket endpoints).      *)
C5_FrontierOnlyOnOwnConnection ==
    \A s \in Streams :
        connection_id(s) \in frontiers =>
            \E t \in Streams :
                /\ Conn(t) = Conn(s)
                /\ \E i \in 1..Len(OutOf(t)) :
                      OutOf(t)[i].header.message_type = "FrontierReq"

(* C6: with abort_on_error set, a packet that meets a decode failure makes *)
(* dump return an error; dump returns Ok only at the end of the file or at *)
(* the end_at limit.                                                       *)
C6_AbortReturnsError ==
    /\ (abort_on_error /\ last.kind = "loop" /\ last.end \in DecodeErrors) =>
          result = "err"
    /\ result = "ok" => last.kind \in {"eof", "end_at"}

-----------------------------------------------------------------------------
(* C8: a signature that is present verifies against the hash of the block  *)
(* under the account's public key (stated for the variants that carry      *)
(* their account).                                                         *)
C8_SignatureVerifies ==
    (fb.signature.some /\ fb.block.type \in {"Open", "State"}) =>
        verify_signature(fb, fb.block.account) = Return(TRUE)

(* C9: sign and verify_signature.  Right after a successful sign(private), *)
(* verify_signature(public) is Ok(true) for the public key of private and  *)
(* Ok(false) for every other one.  A FullBlock that carries the signature  *)
(* which sign(p) produced over block b0 verifies under q exactly when its  *)
(* block is b0 and q is the public key of p: a block that differs from the *)
(* signed one in any field gives Ok(false).  set_work does not change the  *)
(* result of verify_signature.                                             *)
C9_SignVerifyRoundTrip ==
    /\ (lastop.op = "sign" /\ ret.kind = "ok") =>
          \A q \in Publics :
              verify_signature(fb, q) = Return(q = PublicOf(lastop.private))
    /\ ( /\ made.some
          /\ fb.signature = Some(made.val.signature)
          /\ FullBlockHash(fb.block).kind = "ok" ) =>
          /\ sign(new(made.val.block), made.val.private, TRUE).fb.signature
                = fb.signature
          /\ \A q \in Publics :
                verify_signature(fb, q) =
                    Return(made.val.block = fb.block
                           /\ q = PublicOf(made.val.private))
    /\ \A w \in Works, q \in Publics :
          verify_signature(set_work(fb, w), q) = verify_signature(fb, q)

(* The signer's public key is given, work is set, and the block is not the *)
(* one that was signed: Ok(false).                                         *)
C9_Witness ==
    /\ lastop.op = "verify_signature"
    /\ ret = Return(FALSE)
    /\ made.some
    /\ fb.signature = Some(made.val.signature)
    /\ fb.work.some
    /\ made.val.block # fb.block
    /\ PublicOf(made.val.private) = lastop.account

(* C10: verify_signature on a FullBlock without a signature fails with the *)
(* missing-signature error, for each of the five variants.                 *)
C10_MissingSignatureIsError ==
    (lastop.op = "verify_signature" /\ ~fb.signature.some
        /\ fb.block.type \in {"Send", "Receive", "Open", "Change", "State"}) =>
        ret = Failure("Signature missing")

(* C11: sign on a FullBlock whose hash cannot be computed (a Receive or a  *)
(* Change block) returns an error: it does not panic.                      *)
C11_SignFailsWithError ==
    (lastop.op = "sign" /\ fb.block.type \in {"Receive", "Change"}) =>
        ret.kind = "err"

(* C12: balance and previous return a value (Some or None) for each of the *)
(* five variants: neither call panics.                                     *)
C12_ProjectionsTotal ==
    lastop.op \in {"balance", "previous"} => ret.kind = "ok"

-----------------------------------------------------------------------------
(* C13: Keepalive decoding.  Keepalive::len is PEERS * Peer::LEN under     *)
(* every header context.  deserialize on exactly that many bytes returns   *)
(* exactly PEERS peers, the i-th decoded from the i-th Peer::LEN-byte span *)
(* of the bytes; on fewer bytes it returns an error and no Keepalive.      *)
C13_KeepaliveDecoding ==
    /\ kop.op = "len" => kret = Return(PEERS * PeerLEN)
    /\ (kop.op = "deserialize" /\ Len(kdata) = PEERS * PeerLEN) =>
          /\ kret.kind = "ok"
          /\ kmsg = Some(kret.val)
          /\ Len(kret.val) = PEERS
          /\ \A i \in 1..PEERS :
                kret.val[i] =
                    PeerDeserialize(SubSeq(kdata, (i - 1) * PeerLEN + 1,
                                           i * PeerLEN)).val
    /\ (kop.op = "deserialize" /\ Len(kdata) < PEERS * PeerLEN) =>
          kret.kind = "err" /\ kmsg = None

(* Exactly Keepalive::len bytes decoded into PEERS peers. *)
C13_Witness ==
    /\ kop.op = "deserialize"
    /\ Len(kdata) = PEERS * PeerLEN
    /\ kret.kind = "ok"
    /\ Len(kret.val) = PEERS
    /\ kret.val[1] # kret.val[PEERS]

(* C14: codec round trip of Keepalive: serialize returns bytes for every   *)
(* Keepalive value, and the bytes of a value decoded from valid payload    *)
(* bytes are those bytes.                                                  *)
C14_KeepaliveRoundTrip ==
    kop.op = "serialize" =>
        /\ kret.kind = "ok"
        /\ (Len(kdata) = PEERS * PeerLEN => kret.val = kdata)

-----------------------------------------------------------------------------
(* C15 as stated: once the inbound channel is closed, the controller stops *)
(* and the writer loop returns Ok(()); it returns Ok(()) only when the     *)
(* outbound channel is closed.                                             *)
C15_InboundClosureReturnsOk ==
    /\ InboundClosed ~> (OutboundClosed /\ wpc = "ok")
    /\ [](wpc = "ok" => OutboundClosed)

(* C15 as amended: once the inbound channel is closed, the controller      *)
(* stops, which closes the outbound channel, and network_channel returns:  *)
(* Ok(()) when every buffer put into the outbound channel has been         *)
(* written, the error of write_all when a write fails.  It returns Ok(())  *)
(* only when the outbound channel is closed and empty.                     *)
C15_InboundClosureEnds ==
    /\ InboundClosed ~> (OutboundClosed /\ WriterReturned)
    /\ [](wpc = "ok" => (OutboundClosed /\ outq = <<>> /\ written = queued))

(* The reader has ended, the controller has stopped and the writer loop    *)
(* has returned Ok(()) after writing what was queued.                      *)
C15_Witness ==
    /\ InboundClosed
    /\ OutboundClosed
    /\ wpc = "ok"
    /\ Len(written) > 0
    /\ written = queued

-----------------------------------------------------------------------------
C19_BranchesIndependent ==
    (hlast.op = "recv" /\ hlast.msg.is_query /\ hlast.msg.is_response) =>
        /\ hlast.reached
        /\ (hlast.signs /\ hlast.sends) => hlast.replied

(* C20: a stored cookie is checked against at most one response per        *)
(* handshake round, and after a response has verified against it no cookie *)
(* is stored for the address.                                              *)
C20_CookieSingleUse ==
    /\ nchecks <= 1
    /\ (hlast.op = "recv" /\ hlast.verified) =>
          ~cookie_for_socket_addr(cookies, peer_addr).some

-----------------------------------------------------------------------------
-----------------------------------------------------------------------------
-----------------------------------------------------------------------------
(* C23: after a FrontierReq has been decoded on a connection, nothing that *)
(* follows on that connection, in the same chunk or in a later packet of   *)
(* either direction, is decoded as a header-prefixed message: no pair is   *)
(* printed for the connection after the FrontierReq.                       *)
C23_NothingDecodedAfterFrontierReq ==
    \A i \in 1..Len(out) :
        out[i].header.message_type = "FrontierReq" =>
            \A j \in (i + 1)..Len(out) :
                {<<out[j].stream[1], out[j].stream[2]>>,
                 <<out[j].stream[3], out[j].stream[4]>>}
                    # {<<out[i].stream[1], out[i].stream[2]>>,
                       <<out[i].stream[3], out[i].stream[4]>>}

-----------------------------------------------------------------------------
(* C24: once a read has returned 0 bytes (the peer has closed the socket), *)
(* the reader task hands no chunk to the controller: neither the inbound   *)
(* channel nor what the controller has taken holds a chunk of a read made  *)
(* at or after end of stream, which are the empty ones.                    *)
C24_ReaderStopsAtEndOfStream ==
    eof_seen =>
        /\ \A i \in 1..Len(inq) : inq[i] # <<>>
        /\ \A i \in 1..Len(decoded) : decoded[i] # <<>>

-----------------------------------------------------------------------------
-----------------------------------------------------------------------------
(* C26: leftover well-formedness.  Every leftover stored in stream_cont is *)
(* non-empty and is the strict prefix of a message not yet complete: it is *)
(* shorter than Header::LEN, or its first Header::LEN bytes decode to a    *)
(* header of a handled message type whose payload length is defined, and   *)
(* it is shorter than Header::LEN plus that payload length.                *)
C26_LeftoverWellFormed ==
    \A sid \in DOMAIN stream_cont :
        LET left == stream_cont[sid][2] IN
        /\ left # <<>>
        /\ \/ Len(left) < HeaderLEN
           \/ LET h == HeaderDeserialize(SubSeq(left, 1, HeaderLEN)) IN
              /\ h.ok
              /\ h.message_type \in Handled
              /\ WireLen(h.message_type, h.ext).ok
              /\ Len(left) < HeaderLEN + WireLen(h.message_type, h.ext).val

(* Two streams hold a leftover each: one shorter than a header, the other  *)
(* a whole header whose payload is not complete.                           *)
C26_Witness ==
    \E s, t \in Streams :
        /\ HasLeftover(s) /\ HasLeftover(t)
        /\ Len(Leftover(s).val) < HeaderLEN
        /\ Len(Leftover(t).val) >= HeaderLEN
        /\ last.kind = "loop"

-----------------------------------------------------------------------------
(* C27: leftovers are kept per directed stream.  The bytes the loop works  *)
(* on for a packet are the leftover of the packet's own stream, if there   *)
(* is one, followed by the packet's data, and nothing else; a leftover     *)
(* holds only bytes that packets of its own stream carried (it is the end  *)
(* of them); a packet of one stream leaves the leftover of every other     *)
(* stream as it was; a packet skipped by a filter (empty payload, off the  *)
(* node port, filter_addr, before the start), or not parsed, changes no    *)
(* leftover.                                                               *)
C27_LeftoversPerStream ==
    /\ [](\A s \in Streams :
            HasLeftover(s) =>
                LET left == Leftover(s).val IN
                /\ Len(left) <= Len(sent[s])
                /\ left = SubSeq(sent[s], Len(sent[s]) - Len(left) + 1,
                                 Len(sent[s])))
    /\ [][ /\ last'.kind \in {"loop", "frontier"} =>
               /\ last'.had = Leftover(last'.stream)
               /\ last'.chunk = (IF HasLeftover(last'.stream)
                                 THEN Leftover(last'.stream).val \o last'.data
                                 ELSE last'.data)
               /\ \A t \in Streams \ {last'.stream} :
                     Leftover(t)' = Leftover(t)
           /\ last'.kind \notin {"loop", "frontier"} =>
               stream_cont' = stream_cont ]_vars

(* A packet of the answering direction was prepended with the leftover of  *)
(* its own stream while the other direction of the connection holds a      *)
(* leftover of its own.                                                    *)
C27_Witness ==
    /\ last.kind = "loop"
    /\ last.stream = S2
    /\ last.had.some
    /\ last.chunk = last.had.val \o last.data
    /\ HasLeftover(S1)
    /\ Leftover(S1).val # last.had.val

(* C28: packet window of dump.  With start_at = s, no packet with an index *)
(* below s is decoded; with end_at = e, no packet with an index above e is *)
(* decoded, and dump returns Ok at the first packet above e.               *)
C28_PacketWindow ==
    /\ (start_at.some /\ last.kind \in {"loop", "frontier"}) =>
          packet_idx >= start_at.val
    /\ (end_at.some /\ last.kind \in {"loop", "frontier"}) =>
          packet_idx <= end_at.val
    /\ (end_at.some /\ packet_idx > end_at.val /\ last.kind \notin {"skip", "eof"}) =>
          (last.kind = "end_at" /\ result = "ok")

=============================================================================
